---- MODULE Spec2Model ----
(***************************************************************************)
(* SizeTrimmer conversion pipeline (src/sizetrimmer.py, src/db.py):        *)
(* the deduplicating job queue, the worker pool running convert_media,     *)
(* the discovery/watch loop bg_loop, the filesystem event handler and the  *)
(* configuration endpoint.  Paths and file names are sequences of          *)
(* one-character strings so that splitext, basename, substring tests and   *)
(* the temporary-name construction are computed as the Python code does.   *)
(***************************************************************************)
EXTENDS Integers, Sequences, FiniteSets, TLC

\* ------------------------------------------------------------------------
\* Bounds of the model
\* ------------------------------------------------------------------------
\* number of steps taken by the environment: POST /api/config requests and
\* changes made to the library by programs other than the service
MaxEnv == 1

\* the largest max_concurrent_encodes of a configuration
MaxWorkers == 2

\* number of most recent rows of the conversions table that are kept
MaxLog == 2

\* ------------------------------------------------------------------------
\* Strings
\* ------------------------------------------------------------------------
UpperChars == <<"A","B","C","D","E","F","G","H","I","J","K","L","M",
                "N","O","P","Q","R","S","T","U","V","W","X","Y","Z">>
LowerChars == <<"a","b","c","d","e","f","g","h","i","j","k","l","m",
                "n","o","p","q","r","s","t","u","v","w","x","y","z">>

\* str.lower() on one character
LowerChar(c) ==
    IF \E i \in 1..26 : UpperChars[i] = c
    THEN LowerChars[CHOOSE i \in 1..26 : UpperChars[i] = c]
    ELSE c

\* str.lower()
Lower(s) == [i \in 1..Len(s) |-> LowerChar(s[i])]

\* sub in s
Contains(s, sub) ==
    \E i \in 0..(Len(s) - Len(sub)) :
        \A j \in 1..Len(sub) : s[i + j] = sub[j]

\* s.endswith(suf)
EndsWith(s, suf) ==
    /\ Len(suf) <= Len(s)
    /\ \A j \in 1..Len(suf) : s[Len(s) - Len(suf) + j] = suf[j]

\* s.rfind(c) : the last index of c in s, 0 when absent (1-based)
RFind(s, c) ==
    IF \E i \in 1..Len(s) : s[i] = c
    THEN CHOOSE i \in 1..Len(s) :
            /\ s[i] = c
            /\ \A k \in (i + 1)..Len(s) : s[k] # c
    ELSE 0

\* os.path.splitext (posixpath): the extension starts at the last dot after
\* the last separator, unless the file name consists of leading dots only
SplitExtAt(p) ==
    LET sep == RFind(p, "/")
        dot == RFind(p, ".")
    IN  IF dot > sep /\ \E k \in (sep + 1)..(dot - 1) : p[k] # "."
        THEN dot
        ELSE Len(p) + 1

splitext(p) == << SubSeq(p, 1, SplitExtAt(p) - 1), SubSeq(p, SplitExtAt(p), Len(p)) >>

\* os.path.basename
basename(p) == SubSeq(p, RFind(p, "/") + 1, Len(p))

VIDEO_EXTS == { <<".","m","p","4">>, <<".","m","k","v">>, <<".","a","v","i">>,
                <<".","m","o","v">>, <<".","w","m","v">>, <<".","f","l","v">>,
                <<".","w","e","b","m">>, <<".","m","4","v">> }
AUDIO_EXTS == { <<".","m","p","3">>, <<".","f","l","a","c">>, <<".","w","a","v">>,
                <<".","m","4","a">>, <<".","o","g","g">>, <<".","a","a","c">> }

\* the marker process_directory looks for in a file name
TmpMarker == <<".","t","m","p",".">>

\* ------------------------------------------------------------------------
\* Configuration (load_config) and values read from it
\* ------------------------------------------------------------------------
\* JSON null as the value of a text key: a value that is not a string
Null == <<"null">>

\* "WxH" -> the text before the first "x" (target_res.split('x')[0]);
\* a value that is not a string has no split method: AttributeError
SplitX0(res) ==
    IF \E i \in 1..Len(res) : res[i] = "x"
    THEN SubSeq(res, 1, (CHOOSE i \in 1..Len(res) :
                            res[i] = "x" /\ \A k \in 1..(i - 1) : res[k] # "x") - 1)
    ELSE res

Digits == <<"0","1","2","3","4","5","6","7","8","9">>
DigitVal(c) == (CHOOSE i \in 1..10 : Digits[i] = c) - 1
IsDigit(c) == \E i \in 1..10 : Digits[i] = c

RECURSIVE IntOfDigits(_)
IntOfDigits(s) ==
    IF Len(s) = 0 THEN 0
    ELSE 10 * IntOfDigits(SubSeq(s, 1, Len(s) - 1)) + DigitVal(s[Len(s)])

\* int(text): -1 stands for ValueError
IntOf(s) ==
    IF Len(s) > 0 /\ \A i \in 1..Len(s) : IsDigit(s[i])
    THEN IntOfDigits(s)
    ELSE -1

Res720  == <<"1","2","8","0","x","7","2","0">>
Res1080 == <<"1","9","2","0","x","1","0","8","0">>

kw_tv     == <<"t","v">>
kw_shows  == <<"s","h","o","w","s">>
kw_season == <<"s","e","a","s","o","n">>
kw_movies == <<"m","o","v","i","e","s">>
kw_films  == <<"f","i","l","m","s">>
kw_music  == <<"m","u","s","i","c">>
kw_audio  == <<"a","u","d","i","o">>

\* config.get("max_concurrent_encodes", 1)
DefaultEncodes == 1

\* default_config of load_config, with the keys bg_loop reads through
\* config.get defaults (use_watchdog, max_concurrent_encodes) made explicit; parent_directory is
\* kept as "is a directory" since only os.path.isdir of it is used
default_config ==
    [ parent_ok         |-> FALSE,
      tv_show_keywords  |-> <<kw_tv, kw_shows, kw_season>>,
      movie_keywords    |-> <<kw_movies, kw_films>>,
      music_keywords    |-> <<kw_music, kw_audio>>,
      video_codec       |-> "libx265",
      audio_codec_music |-> "libmp3lame",
      tv_resolution     |-> Res720,
      movie_resolution  |-> Res1080,
      dry_run           |-> TRUE,
      use_watchdog      |-> TRUE,
      max_concurrent_encodes |-> DefaultEncodes ]

\* configurations an operator saves through POST /api/config
CfgReal   == [default_config EXCEPT !.parent_ok = TRUE, !.dry_run = FALSE,
                                    !.max_concurrent_encodes = MaxWorkers]
CfgBadRes == [CfgReal EXCEPT !.movie_resolution = Null]
CfgDry    == [default_config EXCEPT !.parent_ok = TRUE, !.use_watchdog = FALSE]

\* config.json is one of these documents, or absent; the state holds the
\* name of the document, and each reader keeps the name of the one it loaded
Documents == [real |-> CfgReal, badres |-> CfgBadRes, dry |-> CfgDry]
Configs   == DOMAIN Documents
NoConfig  == "absent"

\* load_config: default_config when the file does not exist, else the
\* document with missing keys defaulted (the documents carry all keys)
load_config(file) == IF file = NoConfig THEN default_config ELSE Documents[file]

\* ------------------------------------------------------------------------
\* Classifier
\* ------------------------------------------------------------------------
\* f"/{kw}/" in path_lower or f"\\{kw}\\" in path_lower
KwInPath(kw, path_lower) ==
    \/ Contains(path_lower, <<"/">> \o kw \o <<"/">>)
    \/ Contains(path_lower, <<"\\">> \o kw \o <<"\\">>)

AnyKw(kws, path_lower) == \E i \in 1..Len(kws) : KwInPath(kws[i], path_lower)

NoType == "none"

get_media_type(file_path, config) ==
    LET ext        == Lower(splitext(file_path)[2])
        path_lower == Lower(file_path)
    IN  IF AnyKw(config.music_keywords, path_lower) /\ ext \in AUDIO_EXTS THEN "audio"
        ELSE IF ext \in AUDIO_EXTS THEN "audio"
        ELSE IF ext \in VIDEO_EXTS
             THEN IF AnyKw(config.tv_show_keywords, path_lower) THEN "tv"
                  ELSE IF AnyKw(config.movie_keywords, path_lower) THEN "movie"
                  ELSE "movie"
        ELSE NoType

\* ------------------------------------------------------------------------
\* Files, probing and the Optimization Oracle
\* ------------------------------------------------------------------------
NoFile == [codec |-> "none", width |-> 0, size |-> 0, whole |-> FALSE]

\* a file: the codec and width of its first stream, its size in bytes and
\* whether it is a completely written media file
File(codec, width, size) == [codec |-> codec, width |-> width, size |-> size, whole |-> TRUE]

\* Python None as a codec name
NoCodec == "none"

\* get_ffprobe_info: <<codec, width>> of the first stream; None for both when
\* the tool fails or reports no stream (an incomplete file has none); the
\* audio selector asks for codec_name only
get_ffprobe_info(content, media_type, tool_ok) ==
    IF ~tool_ok \/ content = NoFile \/ ~content.whole THEN <<NoCodec, 0>>
    ELSE IF media_type = "audio" THEN <<content.codec, 0>>
    ELSE <<content.codec, content.width>>

\* the category's configured resolution
TargetRes(media_type, config) ==
    IF media_type = "tv" THEN config.tv_resolution ELSE config.movie_resolution

\* is_already_optimized: "True", "False", or "Raise" when the resolution
\* value cannot be split or converted
is_already_optimized(file_path, content, media_type, config, tool_ok) ==
    LET info  == get_ffprobe_info(content, media_type, tool_ok)
        codec == info[1]
        width == info[2]
    IN  IF codec = NoCodec THEN "False"
        ELSE IF media_type = "audio"
        THEN LET desired_codec == config.audio_codec_music
             IN  IF desired_codec = "libmp3lame" /\ codec = "mp3" THEN "True"
                 ELSE IF codec = desired_codec THEN "True" ELSE "False"
        ELSE LET desired_codec == config.video_codec
                 is_hevc       == codec \in {"hevc", "h265"} /\ desired_codec \in {"libx265", "hevc"}
                 target_res    == TargetRes(media_type, config)
             IN  IF target_res = Null THEN "Raise"
                 ELSE LET target_width == IntOf(SplitX0(target_res))
                      IN  IF target_width = -1 THEN "Raise"
                          ELSE LET is_small_enough ==
                                      ~(width # 0 /\ target_width # 0 /\ width > target_width)
                                   is_mkv == EndsWith(Lower(file_path), <<".","m","k","v">>)
                               IN  IF is_hevc /\ is_small_enough /\ is_mkv THEN "True" ELSE "False"

\* ------------------------------------------------------------------------
\* Transcode Executor: names of the outputs and the encoder's product
\* ------------------------------------------------------------------------
out_ext(media_type) ==
    IF media_type = "audio" THEN <<".","m","p","3">> ELSE <<".","m","k","v">>

\* f"{base_name}.tmp{out_ext}"
tmp_file(file_path, media_type) ==
    splitext(file_path)[1] \o <<".","t","m","p">> \o out_ext(media_type)

\* f"{base_name}{out_ext}"
final_file(file_path, media_type) ==
    splitext(file_path)[1] \o out_ext(media_type)

\* the stream codec each encoder name writes
CodecOf(encoder) ==
    IF encoder \in {"libx265", "hevc", "hevc_nvenc", "hevc_amf", "hevc_qsv"} THEN "hevc"
    ELSE IF encoder \in {"libx264", "h264_nvenc", "h264_amf"} THEN "h264"
    ELSE IF encoder = "libmp3lame" THEN "mp3"
    ELSE encoder

Min(a, b) == IF a < b THEN a ELSE b

\* what ffmpeg leaves in the temporary output on exit code 0: the target
\* codec, the width scaled by scale='min(W,iw)':-2, and a smaller size
EncodeOutput(content, media_type, config) ==
    IF media_type = "audio"
    THEN File(CodecOf(config.audio_codec_music), 0, 1)
    ELSE File(CodecOf(config.video_codec),
              Min(IntOf(SplitX0(TargetRes(media_type, config))), content.width), 1)

\* the temporary output while ffmpeg is still writing it
PartialOutput == [codec |-> "none", width |-> 0, size |-> 1, whole |-> FALSE]

\* ------------------------------------------------------------------------
\* The library: the files of the model
\* ------------------------------------------------------------------------
pA == <<"a",".","m","p","4">>
pB == <<"a",".","m","k","v">>

\* the files other programs put under the root, delete or append to: a
\* video to convert and a video of the same stem in the target container
SourcePaths == {pA, pB}

\* the temporary output of a job for either of them; pB is the final
\* output of both
pTmp == <<"a",".","t","m","p",".","m","k","v">>

\* the temporary output of a job for pTmp; pTmp is the final output of it
pTmp2 == <<"a",".","t","m","p",".","t","m","p",".","m","k","v">>

\* paths a Job is made for, and paths a file may exist at; filesystem
\* events for pTmp2 are not followed
JobPaths  == {pA, pB, pTmp}
FilePaths == {pA, pB, pTmp, pTmp2}

\* the outputs of every job stay inside the modelled library
PathsClosed ==
    \A p \in JobPaths : /\ tmp_file(p, "movie") \in FilePaths
                        /\ final_file(p, "movie") \in JobPaths

\* get_media_type of every modelled path under every document, tabulated
\* once (merging with the empty function makes the table an explicit one)
MediaTypeOf ==
    [c \in Configs \cup {NoConfig} |->
        [p \in FilePaths |-> get_media_type(p, load_config(c))] @@ <<>>] @@ <<>>

InitialFiles ==
    [p \in FilePaths |->
        IF p = pA THEN File("h264", 1920, 2) ELSE NoFile]

\* ------------------------------------------------------------------------
\* Calls of the pure functions on their own
\* ------------------------------------------------------------------------
\* directories and extensions of the paths get_media_type is called with
CallDirs ==
    { <<"/">>,
      <<"/","t","v","/">>,
      <<"/","m","y","t","v","/">>,
      <<"/","T","V","/">>,
      <<"/","t","v","/","m","o","v","i","e","s","/">>,
      <<"/","m","o","v","i","e","s","/">>,
      <<"/","m","u","s","i","c","/">>,
      <<"/","x","/","s","e","a","s","o","n"," ","1","/">>,
      <<"\\","t","v","\\">>,
      <<"t","v","/">> }
CallExts ==
    { <<".","m","k","v">>, <<".","M","P","4">>, <<".","m","p","3">>, <<".","t","x","t">>, <<>> }
CallPaths == { d \o <<"a">> \o x : d \in CallDirs, x \in CallExts }

\* a configuration whose TV keyword is written in upper case
kw_TV == <<"T","V">>
CfgUpperKeyword == [default_config EXCEPT !.tv_show_keywords = <<kw_TV>>]
ClassifyConfigs == {default_config, CfgUpperKeyword}

\* files and configurations is_already_optimized is called with
CallContents ==
    { File(c, width, 1) : c \in {"hevc", "h265", "h264"}, width \in {0, 1280, 1920, 3840} }
OracleConfigs ==
    { [default_config EXCEPT !.video_codec = c] : c \in {"libx265", "hevc", "hevc_nvenc", "libx264"} }

NoCall ==
    [ fn |-> "none", file_path |-> <<>>, config |-> default_config, media_type |-> NoType,
      content |-> NoFile, tool_ok |-> TRUE, returned |-> FALSE, result |-> "none" ]

ClassifyCalls ==
    { [NoCall EXCEPT !.fn = "get_media_type", !.file_path = p, !.config = c] :
        p \in CallPaths, c \in ClassifyConfigs }

OracleCalls ==
    { [NoCall EXCEPT !.fn = "is_already_optimized", !.file_path = p, !.config = c,
                     !.media_type = t, !.content = f, !.tool_ok = ok] :
        p \in {pA, pB}, c \in OracleConfigs, t \in {"tv", "movie"},
        f \in CallContents, ok \in BOOLEAN }

\* a successful transcode of a file followed by the oracle on its output:
\* the file, its category and the configuration of both
ConvergeCalls ==
    { [NoCall EXCEPT !.fn = "convert_then_oracle", !.file_path = p, !.config = c,
                     !.media_type = t, !.content = f] :
        p \in {pA, pB}, c \in OracleConfigs, t \in {"tv", "movie", "audio"},
        f \in CallContents }

\* ------------------------------------------------------------------------
\* State
\* ------------------------------------------------------------------------
\* num_workers = config.get("max_concurrent_encodes", 1): the number of
\* worker threads bg_loop starts
num_workers(config) == config.max_concurrent_encodes

\* the threads that can exist
Workers == 1..MaxWorkers

VARIABLES
    fs,                   \* the library: path -> file, NoFile where absent
    conversion_queue,     \* queue.Queue of <<file_path, media_type>>
    queued_files,         \* set of paths queued or running
    current_converting,   \* keys of the in-flight status dict
    config_file,          \* the document in config.json
    config_updated_event, \* threading.Event
    bg,                   \* bg_loop: position, loaded config, files left to visit,
                          \* whether this walk met a path that was already pending,
                          \* and the number of worker threads it started
    events,               \* filesystem events the observer has not delivered yet
    api,                  \* POST /api/config: position of the request handler
    world,                \* the environment: steps taken, paths changed by other programs
    wk,                   \* per worker: position, locals and the job's history
    conversions,          \* the log sink: the last MaxLog rows of the conversions table
    call                  \* one call of get_media_type or is_already_optimized:
                          \* its arguments and, once it has returned, its result

vars == <<fs, conversion_queue, queued_files, current_converting, config_file,
          config_updated_event, bg, events, api, world, wk, conversions, call>>

\* a worker blocked in conversion_queue.get().  The fields after final_file
\* are the history of the current job: the file as it was when the job was
\* dequeued, whether the oracle answered true, whether the status entry was
\* registered, whether the dry-run or encode branch was entered, whether the
\* encoder subprocess was started, the records the sink accepted, whether
\* removing the original or renaming the output raised, where an exception
\* left convert_media, whether the sink rejected a record, the paths
\* the job itself created, removed or renamed onto, the two sizes read by
\* the is_file_stable call that returned True, whether an earlier call
\* returned False, and how many Jobs stayed in the queue at the dequeue
\* (kept until convert_media is entered)
IdleWorker ==
    [ pc |-> "get", file_path |-> <<>>, media_type |-> NoType,
      config |-> NoConfig, size1 |-> 0, orig_size |-> 0,
      tmp_file |-> <<>>, final_file |-> <<>>,
      orig |-> NoFile, optimized |-> FALSE, registered |-> FALSE,
      transcode |-> FALSE, encoder |-> FALSE, logged |-> <<>>,
      replace_err |-> FALSE, fault |-> "none", sink_failed |-> FALSE,
      touched |-> {}, sizes |-> <<>>, waited |-> FALSE, behind |-> 0 ]

Init ==
    /\ fs = InitialFiles
    /\ conversion_queue = <<>>
    /\ queued_files = {}
    /\ current_converting = {}
    /\ config_file \in Configs \cup {NoConfig}
    /\ config_updated_event = FALSE
    /\ bg = [pc |-> "start", config |-> NoConfig, todo |-> {}, dup |-> FALSE, workers |-> 0]
    /\ events = {}
    /\ api = "idle"
    /\ world = [n |-> 0, paths |-> {}]
    /\ wk = [w \in Workers |-> IdleWorker]
    /\ conversions = <<>>
    /\ call = NoCall

\* ------------------------------------------------------------------------
\* Job queue
\* ------------------------------------------------------------------------
\* enqueue_file without the membership test
enqueue_file_unchecked(queue, queued, file_path, media_type) ==
    << Append(queue, <<file_path, media_type>>), queued \cup {file_path} >>

\* enqueue_file under queue_lock: <<queue, queued_files>> afterwards
enqueue_file(queue, queued, file_path, media_type) ==
    IF file_path \notin queued
    THEN << Append(queue, <<file_path, media_type>>), queued \cup {file_path} >>
    ELSE << queue, queued >>

\* the observer reports changes only while it is running, i.e. while bg_loop
\* is blocked in config_updated_event.wait() of the watch branch
ObserverRunning == bg.pc = "wait_watch"

\* the file name carries the marker of a temporary output
IsTmpName(p) == Contains(basename(p), TmpMarker)

\* whether the observer reports a change at path p: it is running, and the
\* events for temporary outputs that are followed count as steps of the
\* environment, at most MaxEnv of them
Reported(p) ==
    /\ ObserverRunning
    /\ p \in JobPaths
    /\ IsTmpName(p) => world.n < MaxEnv

\* events the observer queues for a change at path p
Notify(kind, p) ==
    IF Reported(p) THEN events \cup {<<kind, p>>} ELSE events

NotifyStep(p) ==
    IF Reported(p) /\ IsTmpName(p) THEN [world EXCEPT !.n = @ + 1] ELSE world

\* log_conversion: the record is inserted unless sqlite raises, which is
\* caught and printed
log_conversion(rec, status, new_size, sink_ok) ==
    IF sink_ok
    THEN [rec EXCEPT !.logged = Append(@, [status |-> status,
                                           original_size |-> rec.orig_size,
                                           new_size |-> new_size])]
    ELSE [rec EXCEPT !.sink_failed = TRUE]

\* the rows of the conversions table after log_conversion: INSERT appends
\* one row unless sqlite raises; the oldest rows beyond MaxLog are not kept
Insert(rows, rec, status, new_size, sink_ok) ==
    LET row == [file_name |-> basename(rec.file_path), status |-> status,
                original_size |-> rec.orig_size, new_size |-> new_size]
        all == Append(rows, row)
    IN  IF ~sink_ok THEN rows
        ELSE IF Len(all) > MaxLog THEN Tail(all) ELSE all

\* ------------------------------------------------------------------------
\* worker_loop and convert_media, one action per step
\* ------------------------------------------------------------------------
Goto(w, pc) == wk' = [wk EXCEPT ![w].pc = pc]

\* the worker threads bg_loop has started
Started == 1..bg.workers

\* a dequeue that takes the newest Job instead of the oldest
WorkerGetNewest(w) ==
    /\ w \in Started
    /\ wk[w].pc = "get"
    /\ conversion_queue # <<>>
    /\ LET item == conversion_queue[Len(conversion_queue)]
       IN  wk' = [wk EXCEPT ![w] = [IdleWorker EXCEPT !.pc = "exists",
                                                      !.file_path = item[1],
                                                      !.media_type = item[2],
                                                      !.config = config_file,
                                                      !.orig = fs[item[1]],
                                                      !.behind = Len(conversion_queue) - 1]]
    /\ conversion_queue' = SubSeq(conversion_queue, 1, Len(conversion_queue) - 1)
    /\ UNCHANGED <<call, conversions, fs, queued_files, current_converting, config_file,
                   config_updated_event, bg, events, api, world>>

\* item = conversion_queue.get(); config = load_config()   # Reload live
WorkerGet(w) ==
    /\ w \in Started
    /\ wk[w].pc = "get"
    /\ conversion_queue # <<>>
    /\ LET item == Head(conversion_queue)
       IN  wk' = [wk EXCEPT ![w] = [IdleWorker EXCEPT !.pc = "exists",
                                                      !.file_path = item[1],
                                                      !.media_type = item[2],
                                                      !.config = config_file,
                                                      !.orig = fs[item[1]],
                                                      !.behind = Len(conversion_queue) - 1]]
    /\ conversion_queue' = Tail(conversion_queue)
    /\ UNCHANGED <<call, conversions, fs, queued_files, current_converting, config_file,
                   config_updated_event, bg, events, api, world>>

\* if not os.path.exists(file_path): return
ConvertExists(w) ==
    /\ wk[w].pc = "exists"
    /\ wk' = [wk EXCEPT ![w].behind = 0,
                        ![w].pc = IF fs[wk[w].file_path] = NoFile THEN "release" ELSE "size1"]
    /\ UNCHANGED <<call, conversions, fs, conversion_queue, queued_files, current_converting,
                   config_file, config_updated_event, bg, events, api, world>>

\* is_file_stable: size1 = os.path.getsize(file_path); OSError -> False
StableSize1(w) ==
    /\ wk[w].pc = "size1"
    /\ IF fs[wk[w].file_path] = NoFile
       THEN wk' = [wk EXCEPT ![w].pc = "sleep10", ![w].waited = TRUE]
       ELSE wk' = [wk EXCEPT ![w].size1 = fs[wk[w].file_path].size, ![w].pc = "size2"]
    /\ UNCHANGED <<call, conversions, fs, conversion_queue, queued_files, current_converting,
                   config_file, config_updated_event, bg, events, api, world>>

\* the second read without the comparison: any readable size passes
StableSize2NoCompare(w) ==
    /\ wk[w].pc = "size2"
    /\ IF fs[wk[w].file_path] # NoFile
       THEN wk' = [wk EXCEPT ![w].size1 = 0, ![w].pc = "oracle",
                           ![w].sizes = <<wk[w].size1, fs[wk[w].file_path].size>>]
       ELSE wk' = [wk EXCEPT ![w].size1 = 0, ![w].pc = "sleep10", ![w].waited = TRUE]
    /\ UNCHANGED <<call, conversions, fs, conversion_queue, queued_files, current_converting,
                   config_file, config_updated_event, bg, events, api, world>>

\* is_file_stable after time.sleep(wait_time): size2 = os.path.getsize(file_path);
\* return size1 == size2; OSError -> False
StableSize2(w) ==
    /\ wk[w].pc = "size2"
    /\ IF fs[wk[w].file_path] # NoFile /\ fs[wk[w].file_path].size = wk[w].size1
       THEN wk' = [wk EXCEPT ![w].size1 = 0, ![w].pc = "oracle",
                           ![w].sizes = <<wk[w].size1, fs[wk[w].file_path].size>>]
       ELSE wk' = [wk EXCEPT ![w].size1 = 0, ![w].pc = "sleep10", ![w].waited = TRUE]
    /\ UNCHANGED <<call, conversions, fs, conversion_queue, queued_files, current_converting,
                   config_file, config_updated_event, bg, events, api, world>>

\* while not is_file_stable(file_path): time.sleep(10)
StableSleep(w) ==
    /\ wk[w].pc = "sleep10"
    /\ Goto(w, "size1")
    /\ UNCHANGED <<call, conversions, fs, conversion_queue, queued_files, current_converting,
                   config_file, config_updated_event, bg, events, api, world>>

\* the oracle step without the early return: an optimized file goes on to
\* the registration and the Transcode Executor
ConvertOracleNoReturn(w) ==
    /\ wk[w].pc = "oracle"
    /\ \E tool_ok \in BOOLEAN :
         LET r == is_already_optimized(wk[w].file_path, fs[wk[w].file_path],
                                       wk[w].media_type, load_config(wk[w].config), tool_ok)
         IN  wk' = [wk EXCEPT ![w] =
                      IF r = "True" THEN [@ EXCEPT !.optimized = TRUE, !.pc = "register"]
                      ELSE IF r = "Raise" THEN [@ EXCEPT !.fault = "oracle", !.pc = "release"]
                      ELSE [@ EXCEPT !.pc = "register"]]
    /\ UNCHANGED <<call, conversions, fs, conversion_queue, queued_files, current_converting,
                   config_file, config_updated_event, bg, events, api, world>>

\* if is_already_optimized(file_path, media_type, config): return True
\* an exception of the oracle leaves convert_media for worker_loop's except
ConvertOracle(w) ==
    /\ wk[w].pc = "oracle"
    /\ \E tool_ok \in BOOLEAN :
         LET r == is_already_optimized(wk[w].file_path, fs[wk[w].file_path],
                                       wk[w].media_type, load_config(wk[w].config), tool_ok)
         IN  wk' = [wk EXCEPT ![w] =
                      IF r = "True" THEN [@ EXCEPT !.optimized = TRUE, !.pc = "release"]
                      ELSE IF r = "Raise" THEN [@ EXCEPT !.fault = "oracle", !.pc = "release"]
                      ELSE [@ EXCEPT !.pc = "register"]]
    /\ UNCHANGED <<call, conversions, fs, conversion_queue, queued_files, current_converting,
                   config_file, config_updated_event, bg, events, api, world>>

\* the same locals with the dry_run flag ignored: every job goes to the
\* encoder
BuildCommandNoDryRun(rec, size) ==
    LET r == [rec EXCEPT !.registered = TRUE, !.orig_size = size]
    IN  IF r.media_type # "audio" /\ TargetRes(r.media_type, load_config(r.config)) = Null
        THEN [r EXCEPT !.fault = "build", !.pc = "release"]
        ELSE [r EXCEPT !.tmp_file = tmp_file(r.file_path, r.media_type),
                       !.final_file = final_file(r.file_path, r.media_type),
                       !.transcode = TRUE,
                       !.pc = "popen"]

\* the locals after lines 281-339: the entry is registered, orig_size is
\* the size or 0 when getsize raises; building cmd raises for video when
\* the configured resolution has no split (the exception leaves
\* convert_media); otherwise tmp_file and final_file are set and the
\* dry_run flag selects the branch
BuildCommand(rec, size) ==
    LET r == [rec EXCEPT !.registered = TRUE, !.orig_size = size]
    IN  IF r.media_type # "audio" /\ TargetRes(r.media_type, load_config(r.config)) = Null
        THEN [r EXCEPT !.fault = "build", !.pc = "release"]
        ELSE [r EXCEPT !.tmp_file = tmp_file(r.file_path, r.media_type),
                       !.final_file = final_file(r.file_path, r.media_type),
                       !.transcode = TRUE,
                       !.pc = IF load_config(r.config).dry_run THEN "dry_log" ELSE "popen"]

\* current_converting[file_path] = {...} and the code up to the dry_run test
ConvertRegister(w) ==
    /\ wk[w].pc = "register"
    /\ current_converting' = current_converting \cup {wk[w].file_path}
    /\ wk' = [wk EXCEPT ![w] = BuildCommand(wk[w], fs[wk[w].file_path].size)]
    /\ UNCHANGED <<call, conversions, fs, conversion_queue, queued_files, config_file,
                   config_updated_event, bg, events, api, world>>

\* whether sqlite accepts the INSERT: a failure of the sink (database
\* locked, disk full) is a step of the environment
SinkOutcomes == IF world.n < MaxEnv THEN BOOLEAN ELSE {TRUE}

SinkStep(sink_ok) == IF sink_ok THEN world ELSE [world EXCEPT !.n = @ + 1]

\* time.sleep(2); log_conversion(..., orig_size, orig_size, "success (dry-run)");
\* if file_path in current_converting: del current_converting[file_path]
DryRunLog(w) ==
    /\ wk[w].pc = "dry_log"
    /\ \E sink_ok \in SinkOutcomes :
         /\ wk' = [wk EXCEPT ![w] =
                     [log_conversion(wk[w], "success (dry-run)", wk[w].orig_size, sink_ok)
                         EXCEPT !.pc = "release"]]
         /\ conversions' = Insert(conversions, wk[w], "success (dry-run)",
                                  wk[w].orig_size, sink_ok)
         /\ world' = SinkStep(sink_ok)
    /\ current_converting' = current_converting \ {wk[w].file_path}
    /\ UNCHANGED <<call, fs, conversion_queue, queued_files, config_file,
                   config_updated_event, bg, events, api>>

\* get_media_duration; process = subprocess.Popen(cmd, ...): ffmpeg -y opens
\* the temporary output
ConvertPopen(w) ==
    /\ wk[w].pc = "popen"
    /\ fs' = [fs EXCEPT ![wk[w].tmp_file] = PartialOutput]
    /\ events' = IF fs[wk[w].tmp_file] = NoFile THEN Notify("created", wk[w].tmp_file) ELSE events
    /\ world' = IF fs[wk[w].tmp_file] = NoFile THEN NotifyStep(wk[w].tmp_file) ELSE world
    /\ wk' = [wk EXCEPT ![w].encoder = TRUE, ![w].pc = "encoding",
                        ![w].touched = @ \cup {wk[w].tmp_file}]
    /\ UNCHANGED <<call, conversions, conversion_queue, queued_files, current_converting, config_file,
                   config_updated_event, bg, api>>

\* the stderr loop until the subprocess has exited, then
\* if process.returncode != 0: raise subprocess.CalledProcessError
\* exit code 0 needs a readable input and the output still in place
ConvertEncode(w) ==
    /\ wk[w].pc = "encoding"
    /\ \E rc_zero \in BOOLEAN :
         IF rc_zero /\ fs[wk[w].file_path] # NoFile /\ fs[wk[w].file_path].whole
                    /\ fs[wk[w].tmp_file] # NoFile
         THEN /\ fs' = [fs EXCEPT ![wk[w].tmp_file] =
                           EncodeOutput(fs[wk[w].file_path], wk[w].media_type,
                                        load_config(wk[w].config))]
              /\ Goto(w, "remove_orig")
         ELSE /\ fs' = fs
              /\ Goto(w, "h_remove")
    /\ UNCHANGED <<call, conversions, conversion_queue, queued_files, current_converting, config_file,
                   config_updated_event, bg, events, api, world>>

\* if file_path != final_file: os.remove(file_path)
\* os.remove raises when the file is gone or the removal is refused
ConvertRemoveOrig(w) ==
    /\ wk[w].pc = "remove_orig"
    /\ IF wk[w].file_path = wk[w].final_file
       THEN /\ fs' = fs
            /\ Goto(w, "rename")
       ELSE \E os_ok \in BOOLEAN :
              IF os_ok /\ fs[wk[w].file_path] # NoFile
              THEN /\ fs' = [fs EXCEPT ![wk[w].file_path] = NoFile]
                   /\ wk' = [wk EXCEPT ![w].pc = "rename",
                                       ![w].touched = @ \cup {wk[w].file_path}]
              ELSE /\ fs' = fs
                   /\ wk' = [wk EXCEPT ![w].replace_err = TRUE, ![w].pc = "h_remove"]
    /\ UNCHANGED <<call, conversions, conversion_queue, queued_files, current_converting, config_file,
                   config_updated_event, bg, events, api, world>>

\* os.rename(tmp_file, final_file)
ConvertRename(w) ==
    /\ wk[w].pc = "rename"
    /\ \E os_ok \in BOOLEAN :
         IF os_ok /\ fs[wk[w].tmp_file] # NoFile
         THEN /\ fs' = [fs EXCEPT ![wk[w].final_file] = fs[wk[w].tmp_file],
                                  ![wk[w].tmp_file] = NoFile]
              /\ events' = Notify("moved", wk[w].final_file)
              /\ world' = NotifyStep(wk[w].final_file)
              /\ wk' = [wk EXCEPT ![w].pc = "log_success",
                                  ![w].touched = @ \cup {wk[w].final_file}]
         ELSE /\ fs' = fs
              /\ events' = events
              /\ world' = world
              /\ wk' = [wk EXCEPT ![w].replace_err = TRUE, ![w].pc = "h_remove"]
    /\ UNCHANGED <<call, conversions, conversion_queue, queued_files, current_converting, config_file,
                   config_updated_event, bg, api>>

\* new_size = os.path.getsize(final_file); log_conversion(..., "success");
\* if file_path in current_converting: del current_converting[file_path]
\* getsize raising is handled by except Exception
ConvertLogSuccess(w) ==
    /\ wk[w].pc = "log_success"
    /\ IF fs[wk[w].final_file] = NoFile
       THEN /\ Goto(w, "h_remove")
            /\ current_converting' = current_converting
            /\ conversions' = conversions
            /\ world' = world
       ELSE /\ \E sink_ok \in SinkOutcomes :
                 /\ wk' = [wk EXCEPT ![w] =
                             [log_conversion(wk[w], "success", fs[wk[w].final_file].size, sink_ok)
                                 EXCEPT !.pc = "release"]]
                 /\ conversions' = Insert(conversions, wk[w], "success",
                                          fs[wk[w].final_file].size, sink_ok)
                 /\ world' = SinkStep(sink_ok)
            /\ current_converting' = current_converting \ {wk[w].file_path}
    /\ UNCHANGED <<call, fs, conversion_queue, queued_files, config_file,
                   config_updated_event, bg, events, api>>

\* both except clauses: if os.path.exists(tmp_file): os.remove(tmp_file)
\* an exception of os.remove inside the handler leaves convert_media
HandlerRemoveTmp(w) ==
    /\ wk[w].pc = "h_remove"
    /\ IF fs[wk[w].tmp_file] = NoFile
       THEN /\ fs' = fs
            /\ Goto(w, "h_log")
       ELSE \E os_ok \in BOOLEAN :
              IF os_ok
              THEN /\ fs' = [fs EXCEPT ![wk[w].tmp_file] = NoFile]
                   /\ Goto(w, "h_log")
              ELSE /\ fs' = fs
                   /\ wk' = [wk EXCEPT ![w].fault = "handler", ![w].pc = "release"]
    /\ UNCHANGED <<call, conversions, conversion_queue, queued_files, current_converting, config_file,
                   config_updated_event, bg, events, api, world>>

\* log_conversion(file_name, media_type, orig_size, 0, "error", str(e));
\* if file_path in current_converting: del current_converting[file_path]
HandlerLog(w) ==
    /\ wk[w].pc = "h_log"
    /\ \E sink_ok \in SinkOutcomes :
         /\ wk' = [wk EXCEPT ![w] = [log_conversion(wk[w], "error", 0, sink_ok)
                                        EXCEPT !.pc = "release"]]
         /\ conversions' = Insert(conversions, wk[w], "error", 0, sink_ok)
         /\ world' = SinkStep(sink_ok)
    /\ current_converting' = current_converting \ {wk[w].file_path}
    /\ UNCHANGED <<call, fs, conversion_queue, queued_files, config_file,
                   config_updated_event, bg, events, api>>

\* the end of a job without the removal from queued_files
WorkerReleaseKeepsPending(w) ==
    /\ wk[w].pc = "release"
    /\ wk' = [wk EXCEPT ![w] = IdleWorker]
    /\ UNCHANGED <<call, conversions, fs, conversion_queue, queued_files, current_converting, config_file,
                   config_updated_event, bg, events, api, world>>

\* with queue_lock: if file_path in queued_files: queued_files.remove(file_path);
\* conversion_queue.task_done(); back to the blocking get
WorkerRelease(w) ==
    /\ wk[w].pc = "release"
    /\ queued_files' = queued_files \ {wk[w].file_path}
    /\ wk' = [wk EXCEPT ![w] = IdleWorker]
    /\ UNCHANGED <<call, conversions, fs, conversion_queue, current_converting, config_file,
                   config_updated_event, bg, events, api, world>>

\* a worker thread without the except clause of worker_loop: an exception
\* leaving convert_media ends the thread
WorkerStepNoExcept(w) ==
    /\ wk[w].fault = "none"
    /\ \/ WorkerGet(w) \/ ConvertExists(w)
       \/ StableSize1(w) \/ StableSize2(w) \/ StableSleep(w)
       \/ ConvertOracle(w) \/ ConvertRegister(w)
       \/ DryRunLog(w) \/ ConvertPopen(w) \/ ConvertEncode(w)
       \/ ConvertRemoveOrig(w) \/ ConvertRename(w) \/ ConvertLogSuccess(w)
       \/ HandlerRemoveTmp(w) \/ HandlerLog(w) \/ WorkerRelease(w)

\* worker_loop: the steps of one worker thread
WorkerStep(w) ==
    \/ WorkerGet(w) \/ ConvertExists(w)
    \/ StableSize1(w) \/ StableSize2(w) \/ StableSleep(w)
    \/ ConvertOracle(w) \/ ConvertRegister(w)
    \/ DryRunLog(w) \/ ConvertPopen(w) \/ ConvertEncode(w)
    \/ ConvertRemoveOrig(w) \/ ConvertRename(w) \/ ConvertLogSuccess(w)
    \/ HandlerRemoveTmp(w) \/ HandlerLog(w) \/ WorkerRelease(w)

\* ------------------------------------------------------------------------
\* bg_loop: the Discovery/Watch loop
\* ------------------------------------------------------------------------
\* config = load_config(); num_workers = ...; for _ in range(num_workers):
\* threading.Thread(target=worker_loop, ...).start()
BgStartWorkers ==
    /\ bg.pc = "start"
    /\ bg' = [bg EXCEPT !.workers = num_workers(load_config(config_file)), !.pc = "load"]
    /\ UNCHANGED <<call, conversions, fs, conversion_queue, queued_files, current_converting,
                   config_file, config_updated_event, events, api, world, wk>>

\* a reload that also resizes the pool to the reloaded max_concurrent_encodes
BgLoadConfigResizesPool ==
    /\ bg.pc = "load"
    /\ bg' = [bg EXCEPT !.config = config_file, !.pc = "clear",
                         !.workers = num_workers(load_config(config_file))]
    /\ UNCHANGED <<call, conversions, fs, conversion_queue, queued_files, current_converting,
                   config_file, config_updated_event, events, api, world, wk>>

\* config = load_config()
BgLoadConfig ==
    /\ bg.pc = "load"
    /\ bg' = [bg EXCEPT !.config = config_file, !.pc = "clear"]
    /\ UNCHANGED <<call, conversions, fs, conversion_queue, queued_files, current_converting,
                   config_file, config_updated_event, events, api, world, wk>>

\* config_updated_event.clear(); then the parent_directory test
\* (load_config never returns an empty dict, so "if not config" is not taken)
BgClearEvent ==
    /\ bg.pc = "clear"
    /\ config_updated_event' = FALSE
    /\ bg' = [bg EXCEPT !.pc = IF load_config(bg.config).parent_ok THEN "walk" ELSE "wait_short"]
    /\ UNCHANGED <<call, conversions, fs, conversion_queue, queued_files, current_converting,
                   config_file, events, api, world, wk>>

\* config_updated_event.wait(timeout=5); continue
BgWaitShort ==
    /\ bg.pc = "wait_short"
    /\ bg' = [bg EXCEPT !.pc = "load"]
    /\ UNCHANGED <<call, conversions, fs, conversion_queue, queued_files, current_converting,
                   config_file, config_updated_event, events, api, world, wk>>

\* process_directory: os.walk lists the files of the directory; the names
\* containing ".tmp." are skipped (if ".tmp." in file: continue), which
\* depends on the name only and is applied to the listing here
ProcessDirectoryWalk ==
    /\ bg.pc = "walk"
    /\ bg' = [bg EXCEPT !.todo = {p \in FilePaths : fs[p] # NoFile /\ ~Contains(basename(p), TmpMarker)},
                         !.pc = "scan"]
    /\ UNCHANGED <<call, conversions, fs, conversion_queue, queued_files, current_converting,
                   config_file, config_updated_event, events, api, world, wk>>

\* process_directory, one file of the listing:
\* media_type = get_media_type(...);
\* if media_type: enqueue_file(file_path, media_type)
ProcessDirectoryFile ==
    /\ bg.pc = "scan"
    /\ \E p \in bg.todo :
         LET media_type == MediaTypeOf[bg.config][p]
             q == IF media_type # NoType
                  THEN enqueue_file(conversion_queue, queued_files, p, media_type)
                  ELSE <<conversion_queue, queued_files>>
         IN  /\ conversion_queue' = q[1]
             /\ queued_files' = q[2]
             /\ bg' = [bg EXCEPT !.todo = @ \ {p},
                                  !.dup = @ \/ (media_type # NoType /\ p \in queued_files)]
    /\ UNCHANGED <<call, conversions, fs, current_converting, config_file, config_updated_event,
                   events, api, world, wk>>

\* after the walk: observer.start() when use_watchdog, else the timed wait
BgStartWait ==
    /\ bg.pc = "scan"
    /\ bg.todo = {}
    /\ bg' = [bg EXCEPT !.dup = FALSE,
                         !.pc = IF load_config(bg.config).use_watchdog
                                THEN "wait_watch" ELSE "wait_poll"]
    /\ UNCHANGED <<call, conversions, fs, conversion_queue, queued_files, current_converting,
                   config_file, config_updated_event, events, api, world, wk>>

\* config_updated_event.wait() returns once the event is set;
\* observer.stop(); observer.join() discards what was not delivered
BgWakeWatch ==
    /\ bg.pc = "wait_watch"
    /\ config_updated_event
    /\ events' = {}
    /\ bg' = [bg EXCEPT !.pc = "load"]
    /\ UNCHANGED <<call, conversions, fs, conversion_queue, queued_files, current_converting,
                   config_file, config_updated_event, api, world, wk>>

\* config_updated_event.wait(timeout=interval): by the event or the timeout
BgWakePoll ==
    /\ bg.pc = "wait_poll"
    /\ bg' = [bg EXCEPT !.pc = "load"]
    /\ UNCHANGED <<call, conversions, fs, conversion_queue, queued_files, current_converting,
                   config_file, config_updated_event, events, api, world, wk>>

BgStep ==
    \/ BgStartWorkers \/ BgLoadConfig \/ BgClearEvent \/ BgWaitShort \/ ProcessDirectoryWalk
    \/ ProcessDirectoryFile \/ BgStartWait \/ BgWakeWatch \/ BgWakePoll

\* ------------------------------------------------------------------------
\* MediaHandler: the observer thread delivering one event
\* ------------------------------------------------------------------------
HandleEvent(kind, p) ==
    /\ <<kind, p>> \in events
    /\ LET media_type == MediaTypeOf[bg.config][p]
           q == IF media_type # NoType
                THEN enqueue_file(conversion_queue, queued_files, p, media_type)
                ELSE <<conversion_queue, queued_files>>
       IN  /\ conversion_queue' = q[1]
           /\ queued_files' = q[2]
    /\ events' = events \ {<<kind, p>>}
    /\ UNCHANGED <<call, conversions, fs, current_converting, config_file, config_updated_event,
                   bg, api, world, wk>>

on_created == \E p \in JobPaths : HandleEvent("created", p)

on_moved == \E p \in JobPaths : HandleEvent("moved", p)

\* ------------------------------------------------------------------------
\* POST /api/config
\* ------------------------------------------------------------------------
\* save_config(new_config)
ApiSaveConfig ==
    /\ api = "idle"
    /\ world.n < MaxEnv
    /\ \E new_config \in Configs : config_file' = new_config
    /\ api' = "set"
    /\ world' = [world EXCEPT !.n = @ + 1]
    /\ UNCHANGED <<call, conversions, fs, conversion_queue, queued_files, current_converting,
                   config_updated_event, bg, events, wk>>

\* config_updated_event.set()
ApiSetEvent ==
    /\ api = "set"
    /\ config_updated_event' = TRUE
    /\ api' = "idle"
    /\ UNCHANGED <<call, conversions, fs, conversion_queue, queued_files, current_converting,
                   config_file, bg, events, world, wk>>

\* ------------------------------------------------------------------------
\* Other programs writing to the library
\* ------------------------------------------------------------------------
\* another program creates a source file or appends to it
ExtWrite ==
    /\ world.n < MaxEnv
    /\ \E p \in SourcePaths :
         /\ fs' = [fs EXCEPT ![p] = IF fs[p] = NoFile
                                    THEN File("h264", 1920, 1)
                                    ELSE [fs[p] EXCEPT !.size = @ + 1]]
         /\ events' = IF fs[p] = NoFile THEN Notify("created", p) ELSE events
         /\ world' = [n |-> world.n + 1, paths |-> world.paths \cup {p}]
    /\ UNCHANGED <<call, conversions, conversion_queue, queued_files, current_converting, config_file,
                   config_updated_event, bg, api, wk>>

\* another program deletes a source file
ExtDelete ==
    /\ world.n < MaxEnv
    /\ \E p \in SourcePaths :
         /\ fs[p] # NoFile
         /\ fs' = [fs EXCEPT ![p] = NoFile]
         /\ world' = [n |-> world.n + 1, paths |-> world.paths \cup {p}]
    /\ UNCHANGED <<call, conversions, conversion_queue, queued_files, current_converting, config_file,
                   config_updated_event, bg, events, api, wk>>

Next ==
    \/ \E w \in Workers : WorkerStep(w)
    \/ BgStep
    \/ on_created
    \/ on_moved
    \/ ApiSaveConfig
    \/ ApiSetEvent
    \/ ExtWrite
    \/ ExtDelete

Spec == Init /\ [][Next]_vars

TypeOK ==
    /\ queued_files \subseteq JobPaths
    /\ current_converting \subseteq JobPaths
    /\ config_updated_event \in BOOLEAN
    /\ \A w \in Workers : wk[w].pc \in {"get", "exists", "size1", "size2", "sleep10", "oracle",
                                         "register", "dry_log", "popen", "encoding",
                                         "remove_orig", "rename", "log_success",
                                         "h_remove", "h_log", "release"}

\* the liveness specification: every worker thread keeps running; the
\* environment (API requests, other programs) and the timed waits of
\* bg_loop are not forced
LiveSpec == Spec /\ \A w \in Workers : WF_vars(WorkerStep(w))

\* ------------------------------------------------------------------------
\* The pure functions called on their own: the service is idle
\* ------------------------------------------------------------------------
FunctionInit ==
    /\ call \in ClassifyCalls \cup OracleCalls \cup ConvergeCalls
    /\ fs = InitialFiles
    /\ conversion_queue = <<>>
    /\ queued_files = {}
    /\ current_converting = {}
    /\ config_file = NoConfig
    /\ config_updated_event = FALSE
    /\ bg = [pc |-> "start", config |-> NoConfig, todo |-> {}, dup |-> FALSE, workers |-> 0]
    /\ events = {}
    /\ api = "idle"
    /\ world = [n |-> 0, paths |-> {}]
    /\ wk = [w \in Workers |-> IdleWorker]
    /\ conversions = <<>>

\* media_type = get_media_type(file_path, config)
CallGetMediaType ==
    /\ call.fn = "get_media_type"
    /\ ~call.returned
    /\ call' = [call EXCEPT !.returned = TRUE,
                            !.result = get_media_type(call.file_path, call.config)]
    /\ UNCHANGED <<conversions, fs, conversion_queue, queued_files, current_converting,
                   config_file, config_updated_event, bg, events, api, world, wk>>

\* is_already_optimized(file_path, media_type, config)
CallIsAlreadyOptimized ==
    /\ call.fn = "is_already_optimized"
    /\ ~call.returned
    /\ call' = [call EXCEPT !.returned = TRUE,
                            !.result = is_already_optimized(call.file_path, call.content,
                                                            call.media_type, call.config,
                                                            call.tool_ok)]
    /\ UNCHANGED <<conversions, fs, conversion_queue, queued_files, current_converting,
                   config_file, config_updated_event, bg, events, api, world, wk>>

\* convert_media ran to its success return: the encoder's output is at
\* final_file; a later job for that path asks is_already_optimized with
\* the same configuration
CallConvertThenOracle ==
    /\ call.fn = "convert_then_oracle"
    /\ ~call.returned
    /\ call' = [call EXCEPT
                  !.returned = TRUE,
                  !.result = is_already_optimized(
                                 final_file(call.file_path, call.media_type),
                                 EncodeOutput(call.content, call.media_type, call.config),
                                 call.media_type, call.config, TRUE)]
    /\ UNCHANGED <<conversions, fs, conversion_queue, queued_files, current_converting,
                   config_file, config_updated_event, bg, events, api, world, wk>>

FunctionNext == CallGetMediaType \/ CallIsAlreadyOptimized \/ CallConvertThenOracle

FunctionSpec == FunctionInit /\ [][FunctionNext]_vars

\* ------------------------------------------------------------------------
\* Properties
\* ------------------------------------------------------------------------
\* a worker holds a job from the dequeue until it has removed the path from
\* queued_files
Busy(w) == wk[w].pc # "get"

\* convert_media has returned or raised; the worker is about to release
Ended(w) == wk[w].pc = "release"

QueuedPaths == { conversion_queue[i][1] : i \in 1..Len(conversion_queue) }
RunningPaths == { wk[w].file_path : w \in {v \in Workers : Busy(v)} }

\* C1: at most one Job per path is queued or being processed: no path
\* occurs twice in the queue, no queued path is being processed, and no two
\* workers process the same path
C1_OneJobPerPath ==
    /\ \A i, j \in 1..Len(conversion_queue) :
          i # j => conversion_queue[i][1] # conversion_queue[j][1]
    /\ \A w \in Workers : Busy(w) => wk[w].file_path \notin QueuedPaths
    /\ \A v, w \in Workers : (v # w /\ Busy(v) /\ Busy(w)) => wk[v].file_path # wk[w].file_path

\* the walk has just met a path that was already pending and enqueued nothing
C1_Witness ==
    /\ bg.dup
    /\ \E w \in Workers : Busy(w) /\ wk[w].file_path \notin QueuedPaths

\* C2: a path is in queued_files exactly when a Job for it is in the queue
\* or a worker is processing it
C2_PendingIffQueuedOrRunning == queued_files = QueuedPaths \cup RunningPaths

\* one job queued while another is running, and a job that ended by an
\* exception
C2_Witness ==
    \/ /\ conversion_queue # <<>>
       /\ \E w \in Workers : Busy(w)
       /\ Cardinality(queued_files) = 2
    \/ \E w \in Workers : Ended(w) /\ wk[w].fault # "none"

\* C3: the paths with an in-flight status entry are a subset of queued_files
C3_InFlightSubsetPending == current_converting \subseteq queued_files

\* C4: when a job that registered a status entry has ended, the entry is gone
C4_EntryRemovedAtEnd ==
    \A w \in Workers :
        (Ended(w) /\ wk[w].registered) => wk[w].file_path \notin current_converting

\* C5: a job whose path disappears while it loops on the stability check
\* ends: the worker gets back to the dequeue
C5_VanishedPathEndsJob ==
    \A w \in Workers :
        (wk[w].pc \in {"size1", "size2", "sleep10"} /\ fs[wk[w].file_path] = NoFile)
            ~> (wk[w].pc = "get")

\* C6: when removing the original or renaming the output raised and the
\* error handler ran to its end, the original is still at its path when the
\* job has ended (no other program touched it)
C6_OriginalKeptOnReplaceError ==
    \A w \in Workers :
        (Ended(w) /\ wk[w].replace_err /\ wk[w].fault = "none"
                  /\ wk[w].file_path \notin world.paths)
            => fs[wk[w].file_path] = wk[w].orig

\* C7: the loop never blocks in the untimed wait with a configuration older
\* than the saved one while no signal is set or about to be set
C7_NoStaleWait ==
    (bg.pc = "wait_watch" /\ ~config_updated_event /\ api = "idle")
        => bg.config = config_file

\* C8: a job whose file the oracle reports as optimized has appended one
\* success record with new_size = original_size when it ends
C8_SkipIsRecorded ==
    \A w \in Workers :
        (Ended(w) /\ wk[w].optimized)
            => /\ Len(wk[w].logged) = 1
               /\ wk[w].logged[1].status = "success"
               /\ wk[w].logged[1].new_size = wk[w].logged[1].original_size

\* C9: in a job whose file the oracle reports as optimized no status entry
\* is registered, no encoder is started, no temporary output is named or
\* created, and the job removes or renames nothing
C9_OptimizedNeverTranscoded ==
    \A w \in Workers :
        wk[w].optimized
            => /\ ~wk[w].registered
               /\ ~wk[w].transcode
               /\ ~wk[w].encoder
               /\ wk[w].tmp_file = <<>>
               /\ wk[w].touched = {}
               /\ Ended(w)

\* a job ended by the oracle's answer
C9_Witness == \E w \in Workers : Ended(w) /\ wk[w].optimized

\* C10: a job taken through the dry-run or encode branch has appended
\* exactly one record when it ends (unless the sink rejected the record)
C10_OneRecordPerJob ==
    \A w \in Workers :
        (Ended(w) /\ wk[w].transcode /\ ~wk[w].sink_failed) => Len(wk[w].logged) = 1

\* a job that went through the dry-run branch (dry_run set in the
\* configuration it was dequeued with)
DryJob(w) == wk[w].transcode /\ load_config(wk[w].config).dry_run

\* the row log_conversion writes for a dry run
IsDryRow(row) == row.status = "success (dry-run)"

\* C11: a dry-run job starts no encoder, creates no temporary output and
\* removes or renames nothing, no step of it changes the library, and the
\* record it appends is a success (dry-run) one with new_size =
\* original_size, as is every such row of the log
C11_DryRunIdempotent ==
    /\ [](/\ \A w \in Workers :
               (Ended(w) /\ DryJob(w))
                   => /\ ~wk[w].encoder
                      /\ wk[w].touched = {}
                      /\ (~wk[w].sink_failed
                             => /\ Len(wk[w].logged) = 1
                                /\ wk[w].logged[1].status = "success (dry-run)"
                                /\ wk[w].logged[1].new_size = wk[w].logged[1].original_size)
          /\ \A i \in 1..Len(conversions) :
               IsDryRow(conversions[i])
                   => conversions[i].new_size = conversions[i].original_size)
    /\ [][ \A w \in Workers :
              (wk'[w] # wk[w] /\ wk'[w].pc # "get" /\ load_config(wk'[w].config).dry_run)
                  => fs' = fs ]_vars

\* the second dry run over the untouched initial file has just been recorded
C11_Witness ==
    /\ Len(conversions) = 2
    /\ IsDryRow(conversions[1]) /\ IsDryRow(conversions[2])
    /\ conversions[1].file_name = basename(pA)
    /\ conversions[2].file_name = basename(pA)
    /\ world.paths = {}
    /\ fs[pA] = InitialFiles[pA]
    /\ \E w \in Workers : Ended(w) /\ DryJob(w) /\ wk[w].file_path = pA

\* the job is past the stability loop of convert_media
PastStability(w) ==
    \/ wk[w].pc \in {"oracle", "register", "dry_log", "popen", "encoding",
                      "remove_orig", "rename", "log_success", "h_remove", "h_log"}
    \/ wk[w].optimized \/ wk[w].registered \/ wk[w].fault # "none"

\* C12: a job is past the stability loop only after one is_file_stable call
\* read two equal sizes, and a job whose second read differs from the
\* first (or fails) stays in the loop
C12_StableBeforeProcessing ==
    \A w \in Workers :
        /\ PastStability(w) => (Len(wk[w].sizes) = 2 /\ wk[w].sizes[1] = wk[w].sizes[2])
        /\ ~PastStability(w) => wk[w].sizes = <<>>

\* a file another program was still writing: a check failed, a later one
\* passed, and the job went on
C12_Witness ==
    \E w \in Workers :
        /\ PastStability(w)
        /\ wk[w].waited
        /\ wk[w].file_path \in world.paths
        /\ wk[w].sizes[1] > wk[w].orig.size

\* the encoder was started and the job ended without a success record:
\* the subprocess exited non-zero or a later step raised
TranscodeFailed(w) ==
    /\ Ended(w)
    /\ wk[w].encoder
    /\ ~(\E i \in 1..Len(wk[w].logged) : wk[w].logged[i].status = "success")
    /\ ~(wk[w].sink_failed /\ wk[w].fault = "none" /\ ~wk[w].replace_err
           /\ wk[w].final_file \in wk[w].touched)

\* C13: when the transcode failed, the job ends with its temporary output
\* removed, an error record appended (unless the sink rejected it) and the
\* original file unchanged at its path (the except clause ran to its end
\* and no other program touched the file)
C13_FailureCleansUp ==
    \A w \in Workers :
        (TranscodeFailed(w) /\ wk[w].fault = "none" /\ wk[w].file_path \notin world.paths)
            => /\ fs[wk[w].tmp_file] = NoFile
               /\ (~wk[w].sink_failed
                      => Len(wk[w].logged) = 1 /\ wk[w].logged[1].status = "error")
               /\ fs[wk[w].file_path] = wk[w].orig

\* the worker is held in the stability loop by a path that is gone
HeldByVanishedPath(w) ==
    /\ wk[w].pc \in {"size1", "size2", "sleep10"}
    /\ fs[wk[w].file_path] = NoFile

\* the job ended with an error record, a rejected record or an exception
EndedBadly(w) ==
    /\ Ended(w)
    /\ \/ wk[w].fault # "none"
       \/ wk[w].sink_failed
       \/ wk[w].replace_err
       \/ \E i \in 1..Len(wk[w].logged) : wk[w].logged[i].status = "error"

\* C14: whatever the outcome of a job, its worker gets back to the blocking
\* dequeue, and a Job that is queued when another job has ended is
\* dequeued later (unless every started worker is held by a vanished path)
C14_OutcomeDoesNotStopWorker ==
    /\ \A w \in Workers : Ended(w) ~> (wk[w].pc = "get")
    /\ \A p \in JobPaths :
          ((\E w \in Workers : Ended(w)) /\ p \in QueuedPaths)
              ~> (p \notin QueuedPaths \/ \A w \in Started : HeldByVanishedPath(w))

\* a job has ended badly while another Job waits in the queue
C14_Witness ==
    /\ \E w \in Workers : EndedBadly(w)
    /\ conversion_queue # <<>>

\* C20: no path whose file name contains ".tmp." is queued or pending
C20_NoTmpJob ==
    \A p \in QueuedPaths \cup queued_files : ~IsTmpName(p)

\* C15: every step that adds a Job appends it behind the Jobs already
\* queued, and every dequeue takes the Job that was appended first
C15_FifoDequeue ==
    [][ /\ Len(conversion_queue') > Len(conversion_queue)
            => /\ Len(conversion_queue') = Len(conversion_queue) + 1
               /\ SubSeq(conversion_queue', 1, Len(conversion_queue)) = conversion_queue
        /\ \A w \in Workers :
              (wk[w].pc = "get" /\ wk'[w].pc # "get")
                  => /\ conversion_queue # <<>>
                     /\ wk'[w].file_path = Head(conversion_queue)[1]
                     /\ wk'[w].media_type = Head(conversion_queue)[2]
                     /\ conversion_queue' = Tail(conversion_queue) ]_vars

\* a worker has dequeued a Job while a later Job stayed in the queue
C15_Witness ==
    \E w \in Workers : Busy(w) /\ wk[w].behind > 0

\* the settings of a configuration the transcode step depends on
EncodeSettings(config) ==
    << config.dry_run, config.video_codec, config.audio_codec_music,
       config.tv_resolution, config.movie_resolution >>

\* C18: when a job enters its transcode step (the dry-run or encode
\* branch), the settings it uses are those of the configuration saved at
\* that moment
C18_ConfigAtTranscodeStart ==
    [][ \A w \in Workers :
          (wk[w].pc = "register" /\ wk'[w].transcode)
              => EncodeSettings(load_config(wk[w].config))
                   = EncodeSettings(load_config(config_file)) ]_vars

\* jobs being processed, and encoder subprocesses running
BusyWorkers == {w \in Workers : Busy(w)}
RunningEncoders == {w \in Workers : wk[w].pc = "encoding"}

\* C19: never more jobs in process, nor encoders running, than worker
\* threads were started from the configuration read at startup, and that
\* number does not change afterwards
C19_ConcurrencyBounded ==
    /\ [](/\ Cardinality(BusyWorkers) <= bg.workers
          /\ Cardinality(RunningEncoders) <= bg.workers
          /\ BusyWorkers \subseteq Started)
    /\ [][bg.pc # "start" => bg'.workers = bg.workers]_vars

\* started with one worker; the saved configuration now asks for more, and
\* a Job waits in the queue while the only worker is busy
C19_Witness ==
    /\ bg.workers = 1
    /\ num_workers(load_config(config_file)) > 1
    /\ bg.config = config_file
    /\ Cardinality(BusyWorkers) = 1
    /\ conversion_queue # <<>>

\* the keyword, written as configured, is a directory name of the path
\* bounded by separators on both sides
ExactSegment(kw, path) ==
    \/ Contains(path, <<"/">> \o kw \o <<"/">>)
    \/ Contains(path, <<"\\">> \o kw \o <<"\\">>)

\* the same, letter case ignored on both sides
FoldedSegment(kw, path) == ExactSegment(Lower(kw), Lower(path))

\* C16: get_media_type returns audio exactly for the audio extensions,
\* none exactly for the extensions that are neither audio nor video, tv for
\* a video whose path has a TV keyword as a whole directory name, tv only
\* for a video whose path has one when letter case is ignored, and movie
\* for the other videos
C16_ClassifyBySegment ==
    (call.fn = "get_media_type" /\ call.returned)
        => LET extension == Lower(splitext(call.file_path)[2])
               kws       == call.config.tv_show_keywords
               is_video  == extension \in VIDEO_EXTS
               is_audio  == extension \in AUDIO_EXTS
           IN  /\ call.result = "audio" <=> is_audio
               /\ call.result = NoType <=> (~is_audio /\ ~is_video)
               /\ call.result \in {"tv", "movie"} <=> (is_video /\ ~is_audio)
               /\ (is_video /\ \E i \in 1..Len(kws) : ExactSegment(kws[i], call.file_path))
                     => call.result = "tv"
               /\ call.result = "tv"
                     => \E i \in 1..Len(kws) : FoldedSegment(kws[i], call.file_path)

\* the encoders of convert_media that write HEVC
HevcEncoders == {"libx265", "hevc", "hevc_nvenc", "hevc_amf", "hevc_qsv"}

\* C17: for a tv or movie file is_already_optimized returns True exactly
\* when the probe found an HEVC stream, the configured encoder is an HEVC
\* one, the width is unset or at most the category's target width, and the
\* extension is .mkv; False when the probe fails
C17_OptimizedIffAllThree ==
    (call.fn = "is_already_optimized" /\ call.returned)
        => LET info         == get_ffprobe_info(call.content, call.media_type, call.tool_ok)
               target_width == IntOf(SplitX0(TargetRes(call.media_type, call.config)))
               expected     ==
                   /\ info[1] \in {"hevc", "h265"}
                   /\ call.config.video_codec \in HevcEncoders
                   /\ (info[2] = 0 \/ info[2] <= target_width)
                   /\ Lower(splitext(call.file_path)[2]) = <<".","m","k","v">>
           IN  /\ call.result \in {"True", "False"}
               /\ call.result = "True" <=> expected

\* the job is in the encode branch: its temporary output is named and the
\* encoder is about to run, runs or has run
Encoding(w) ==
    wk[w].pc \in {"popen", "encoding", "remove_orig", "rename", "log_success",
                  "h_remove", "h_log"}

\* the job has just renamed its temporary output onto the final path
Renamed(w) == wk[w].pc = "log_success"

\* C21: two jobs in the encode branch at the same time have different
\* temporary outputs and different final paths
C21_DistinctOutputs ==
    \A v, w \in Workers :
        (v # w /\ Encoding(v) /\ Encoding(w))
            => /\ wk[v].tmp_file # wk[w].tmp_file
               /\ wk[v].final_file # wk[w].final_file

\* C21, the consequence: the file a job has just renamed onto its final
\* path is a completely written one
C21_RenamedIsComplete ==
    \A w \in Workers :
        (Renamed(w) /\ fs[wk[w].final_file] # NoFile) => fs[wk[w].final_file].whole

\* C22: the output of a successful transcode is reported as optimized by
\* the oracle under the configuration it was transcoded with
C22_OutputIsOptimized ==
    (call.fn = "convert_then_oracle" /\ call.returned) => call.result = "True"

====
